---- MODULE Spec2Model ----
(***************************************************************************)
(* A model of hugoreleaser's command pipeline (cmd/allcmd, main.go) and of  *)
(* its release publishing client (package releases).                       *)
(*                                                                         *)
(* Spec       : one run of parseAndRun with the "all" command.             *)
(* SpecClient : the Client API driven call by call.                        *)
(* SpecRetry  : the retry executor around an arbitrary operation.          *)
(***************************************************************************)
EXTENDS Integers, Sequences, FiniteSets, TLC

\* ------------------------------------------------------------------ bounds
\* rand.Int63() is drawn from 0..MaxID
MaxID == 2
\* the retry executor's maximum number of attempts
MaxAttempts == 3
\* the number of archives the release handler uploads
NumAssets == 2

\* ------------------------------------------------------------------ errors
(* An error value is the sequence of its layers, outermost first; the nil   *)
(* error is the empty sequence.  A layer that `unwrap`s exposes the layers  *)
(* below it to errors.Is; a layer that does not hides them.                 *)
Nil == <<>>

Err(msg) == << [msg |-> msg, unwrap |-> FALSE] >>

\* fmt.Errorf("msg: %w", e)
Wrap(msg, e) == << [msg |-> msg, unwrap |-> TRUE] >> \o e

\* TemporaryError{e}: the struct embeds the error interface, which promotes
\* Error() only; it has neither Unwrap nor Is.
TemporaryError(e) == << [msg |-> "TemporaryError", unwrap |-> FALSE] >> \o e

IsTemporaryError(e) == e # Nil /\ Head(e).msg = "TemporaryError"

\* errors.Is(err, target) for a comparable, non-nil target
RECURSIVE ErrorsIs(_, _)
ErrorsIs(err, target) ==
    IF err = Nil THEN FALSE
    ELSE IF err = target THEN TRUE
    ELSE IF Head(err).unwrap /\ Tail(err) # Nil THEN ErrorsIs(Tail(err), target)
    ELSE FALSE

DeadlineExceeded == Err("context deadline exceeded")
Canceled == Err("context canceled")

\* ------------------------------------------------------------------ state
VARIABLES
    pc,         \* position of the run in parseAndRun / all.Exec / the release handler
    token,      \* os.Getenv("GITHUB_TOKEN")
    try,        \* core.Try
    args,       \* the args the command is run with
    ctxDone,    \* the deadline of the context of parseAndRun has elapsed
    idx,        \* index of the loop of all.Exec over commandHandlers
    calls,      \* the Init and Exec invocations made by all.Exec, in order
    initErr,    \* handler -> what its Init returned
    execErr,    \* handler -> what its Exec returned
    returned,   \* the <<op, handler>> calls that have returned
    allRes,     \* what all.Exec returned
    result,     \* what parseAndRun returned
    ctxSeen,    \* a blocking call of a handler has returned ctx.Err()
    closed,     \* number of calls of core.Close
    logged,     \* number of times the elapsed time was logged
    run,        \* parseAndRun's record of the run: the token it started with, where
                \* it panicked, the cancel() calls, what core.Close returned and
                \* what the return statement had set before the deferred calls
    client,     \* the Client at hand: "none", "fake", "github" or, for a Client
                \* implementation of the caller's, "custom"
    fakeID,     \* FakeClient.releaseID
    relID,      \* the release identifier held by the caller
    asset,      \* index of the asset being uploaded by the release handler
    argID,      \* the releaseID passed to UploadAssetsFileWithRetries
    issued,     \* the identifiers returned by Release on this client so far
    rpc,        \* position in UploadAssetsFileWithRetries / withRetries
    attemptLog, \* what each attempt of the current withRetries call returned
    opens,      \* successful openFile calls in the current call
    closes,     \* f.Close calls in the current call
    upCalls,    \* client.UploadAssetsFile calls in the current call
    last,       \* the last call made to the client API and what it returned
    retryRes    \* what withRetries / UploadAssetsFileWithRetries returned

vars == << pc, token, try, args, ctxDone, idx, calls, initErr, execErr, returned,
           allRes, result, ctxSeen, closed, logged, run, client, fakeID, relID,
           asset, argID, issued, rpc, attemptLog, opens, closes, upCalls, last, retryRes >>

pipeVars == << pc, token, try, args, ctxDone, idx, calls, initErr, execErr, returned,
               allRes, result, ctxSeen, closed, logged, run, asset >>

retryVars == << argID, rpc, attemptLog, opens, closes, upCalls, retryRes >>

clientVars == << client, fakeID, relID, issued, last >>

\* ------------------------------------------------------ the release client
StatusCreated == 201
StatusBadRequest == 400
StatusUnprocessableEntity == 422

\* the statuses for which go-github reports an error: everything but 2xx
NonSuccessStatuses == (100 .. 599) \ (200 .. 299)

Types == {"github", "gitlab"}
Tokens == {"", "faketoken", "ghp_token"}
IDs == 0 .. MaxID

\* What a call of the remote API yields: (_, resp, err).
NoOut == [err |-> Nil, hasResp |-> FALSE, status |-> 0, id |-> 0]
HttpOK(s, id) == [err |-> Nil, hasResp |-> TRUE, status |-> s, id |-> id]
HttpFailure(s) == [err |-> Err("github: error response"), hasResp |-> TRUE,
                   status |-> s, id |-> 0]
TransportFailure == [err |-> Err("transport failure"), hasResp |-> FALSE,
                     status |-> 0, id |-> 0]
\* the request's context is done: the call returns (nil, ctx.Err())
ContextFailure == [err |-> DeadlineExceeded, hasResp |-> FALSE, status |-> 0, id |-> 0]

FailureOutcomes == {HttpFailure(s) : s \in NonSuccessStatuses} \cup {TransportFailure}

\* the outcomes of Repositories.UploadReleaseAsset
UploadOutcomes(done) ==
    IF done THEN {ContextFailure}
    ELSE {HttpOK(StatusCreated, 0)} \cup FailureOutcomes

\* the outcomes of Repositories.CreateRelease (the remote assigns ids 1..MaxID)
CreateOutcomes(done) ==
    IF done THEN {ContextFailure}
    ELSE {HttpOK(s, id) : s \in {200, StatusCreated, 202}, id \in 1 .. MaxID}
         \cup FailureOutcomes

\* a classifier that takes only server errors for temporary
isTemporaryHttpStatus_Only5xx(status) ==
    IF status < 500 THEN FALSE ELSE TRUE

isTemporaryHttpStatus(status) ==
    IF status \in {StatusUnprocessableEntity, StatusBadRequest} THEN FALSE ELSE TRUE

MissingToken == Err("github: missing GITHUB_TOKEN env var")

UnsupportedType == Err("github: only github is supported for now")

\* a NewClient that reads the token before it looks at the type
NewClient_TokenFirst(typ, tok) ==
    IF tok = ""
    THEN [client |-> "none", err |-> MissingToken, http |-> FALSE]
    ELSE IF typ # "github"
    THEN [client |-> "none", err |-> UnsupportedType, http |-> FALSE]
    ELSE IF tok = "faketoken"
    THEN [client |-> "fake", err |-> Nil, http |-> FALSE]
    ELSE [client |-> "github", err |-> Nil, http |-> TRUE]

\* tok: os.Getenv(tokenEnvVar); http: oauth2.NewClient was called
NewClient(typ, tok) ==
    IF typ # "github"
    THEN [client |-> "none", err |-> UnsupportedType, http |-> FALSE]
    ELSE IF tok = ""
    THEN [client |-> "none", err |-> MissingToken, http |-> FALSE]
    ELSE IF tok = "faketoken"
    THEN [client |-> "fake", err |-> Nil, http |-> FALSE]
    ELSE [client |-> "github", err |-> Nil, http |-> TRUE]

\* a Release that takes any answer without an error for a created release
GitHubRelease_AnyStatus(notes, out) ==
    IF notes = "unreadable"
    THEN [id |-> 0, err |-> Err("open release notes: no such file"), remoteCalls |-> 0]
    ELSE IF out.err # Nil
    THEN [id |-> 0, err |-> out.err, remoteCalls |-> 1]
    ELSE [id |-> out.id, err |-> Nil, remoteCalls |-> 1]

\* notes: "none" (no ReleaseNotesFilename), "ok" (read), "unreadable";
\* `out` is what CreateRelease yields if it is called.
GitHubRelease(notes, out) ==
    IF notes = "unreadable"
    THEN [id |-> 0, err |-> Err("open release notes: no such file"), remoteCalls |-> 0]
    ELSE IF out.err # Nil
    THEN [id |-> 0, err |-> out.err, remoteCalls |-> 1]
    ELSE IF out.status # StatusCreated
    THEN [id |-> 0, err |-> Err("github: unexpected status code"), remoteCalls |-> 1]
    ELSE [id |-> out.id, err |-> Nil, remoteCalls |-> 1]

\* an upload that wraps a failure only when a response says it is temporary
GitHubUploadAssetsFile_NilRespFatal(out) ==
    IF out.err = Nil THEN Nil
    ELSE IF out.hasResp /\ isTemporaryHttpStatus(out.status) THEN TemporaryError(out.err)
    ELSE out.err

\* out: the (_, resp, err) of Repositories.UploadReleaseAsset
GitHubUploadAssetsFile(out) ==
    IF out.err = Nil THEN Nil
    ELSE IF out.hasResp /\ ~isTemporaryHttpStatus(out.status) THEN out.err
    ELSE TemporaryError(out.err)

MismatchError == Err("fake: releaseID mismatch")
NilFileError == Err("fake: nil file")

\* an upload that looks at the file before it looks at the identifier
FakeUploadAssetsFile_FileFirst(c, fNil, releaseID) ==
    IF fNil THEN NilFileError
    ELSE IF c # releaseID THEN MismatchError
    ELSE Nil

\* c: the client's releaseID field
FakeUploadAssetsFile(c, fNil, releaseID) ==
    IF c # releaseID THEN MismatchError
    ELSE IF fNil THEN NilFileError
    ELSE Nil

\* The closure of UploadAssetsFileWithRetries, after openFile succeeded:
\* what it returns to withRetries for the error of client.UploadAssetsFile.
UploadAttempt(err) ==
    IF err # Nil /\ ErrorsIs(err, TemporaryError(Nil))
    THEN [err |-> err, retry |-> TRUE]
    ELSE [err |-> err, retry |-> FALSE]

OpenError == Err("open asset: no such file")

\* ------------------------------------------------------ the retry executor
\* an executor that retries every error, whatever the attempt said of it
RetryStep_AnyError(r, n) ==
    IF r.err = Nil THEN [done |-> TRUE, res |-> r.err]
    ELSE IF n >= MaxAttempts THEN [done |-> TRUE, res |-> r.err]
    ELSE [done |-> FALSE, res |-> Nil]

\* withRetries after the n-th attempt returned r = (err, retry)
RetryStep(r, n) ==
    IF r.err = Nil \/ ~r.retry THEN [done |-> TRUE, res |-> r.err]
    ELSE IF n >= MaxAttempts THEN [done |-> TRUE, res |-> r.err]
    ELSE [done |-> FALSE, res |-> Nil]

\* withRetries receives r from the attempt
Attempted(r) ==
    LET log == Append(attemptLog, r)
        d == RetryStep(r, Len(log))
    IN /\ attemptLog' = log
       /\ rpc' = IF d.done THEN "done" ELSE "call"
       /\ retryRes' = d.res

\* UploadAssetsFileWithRetries(ctx, client, settings, releaseID, openFile)
StartUpload(id) ==
    /\ rpc \in {"idle", "done"}
    /\ rpc' = "call"
    /\ argID' = id
    /\ attemptLog' = << >>
    /\ opens' = 0
    /\ closes' = 0
    /\ upCalls' = 0
    /\ retryRes' = Nil

\* a closure that leaves a failed open to the executor to try again
AttemptOpen_Retry(ok) ==
    /\ rpc = "call"
    /\ IF ok
       THEN /\ opens' = opens + 1
            /\ rpc' = "upload"
            /\ UNCHANGED << attemptLog, retryRes >>
       ELSE /\ Attempted([err |-> OpenError, retry |-> TRUE])
            /\ UNCHANGED opens
    /\ UNCHANGED << argID, closes, upCalls >>

\* the closure up to client.UploadAssetsFile: openFile, defer f.Close()
AttemptOpen(ok) ==
    /\ rpc = "call"
    /\ IF ok
       THEN /\ opens' = opens + 1
            /\ rpc' = "upload"
            /\ UNCHANGED << attemptLog, retryRes >>
       ELSE /\ Attempted([err |-> OpenError, retry |-> FALSE])
            /\ UNCHANGED opens
    /\ UNCHANGED << argID, closes, upCalls >>

\* a closure that closes the file only after an upload that succeeded
AttemptUpload_NoClose(err) ==
    /\ rpc = "upload"
    /\ upCalls' = upCalls + 1
    /\ closes' = IF err = Nil THEN closes + 1 ELSE closes
    /\ Attempted(UploadAttempt(err))
    /\ UNCHANGED << argID, opens >>

\* the rest of the closure: client.UploadAssetsFile returns err, f is closed
AttemptUpload(err) ==
    /\ rpc = "upload"
    /\ upCalls' = upCalls + 1
    /\ closes' = closes + 1
    /\ Attempted(UploadAttempt(err))
    /\ UNCHANGED << argID, opens >>

\* what UploadAssetsFile of a Client implementation of the caller's may return:
\* nil, an error of its own, or the TemporaryError{} that errors.Is looks for
CustomUploadResults == {Nil, Err("custom: failure"), TemporaryError(Nil)}

\* what client.UploadAssetsFile(ctx, settings, f, argID) may return, f open
ClientUploadResults(done) ==
    IF client = "fake" THEN {FakeUploadAssetsFile(fakeID, FALSE, argID)}
    ELSE IF client = "custom" THEN CustomUploadResults
    ELSE {GitHubUploadAssetsFile(o) : o \in UploadOutcomes(done)}

\* ------------------------------------------------------------ initial state
Handlers == << "build", "archive", "release" >>
HandlerSet == {Handlers[i] : i \in 1 .. Len(Handlers)}

NoCall == [op |-> "none", variant |-> "none", typ |-> "", tok |-> "", id |-> 0,
           fNil |-> FALSE, notes |-> "none", out |-> NoOut, err |-> Nil,
           retID |-> 0, remoteCalls |-> 0, cid |-> 0, http |-> FALSE]

RetryIdle ==
    /\ rpc' = "idle"
    /\ argID' = 0
    /\ attemptLog' = << >>
    /\ opens' = 0
    /\ closes' = 0
    /\ upCalls' = 0
    /\ retryRes' = Nil

InitPipe ==
    /\ idx = 0
    /\ calls = << >>
    /\ initErr = [h \in HandlerSet |-> Nil]
    /\ execErr = [h \in HandlerSet |-> Nil]
    /\ returned = {}
    /\ allRes = Nil
    /\ result = Nil
    /\ ctxSeen = FALSE
    /\ ctxDone = FALSE
    /\ closed = 0
    /\ logged = 0
    /\ asset = 0
    /\ try = FALSE
    /\ args = << >>
    /\ run = [startToken |-> token, panicAt |-> "", cancels |-> 0,
              closeErr |-> Nil, retErr |-> Nil]

InitClient ==
    /\ client = "none"
    /\ fakeID = 0
    /\ relID = 0
    /\ issued = {}
    /\ last = NoCall

InitRetry ==
    /\ rpc = "idle"
    /\ argID = 0
    /\ attemptLog = << >>
    /\ opens = 0
    /\ closes = 0
    /\ upCalls = 0
    /\ retryRes = Nil

\* ------------------------------------------- SpecClient: the Client API
InitAPI ==
    /\ pc = "api"
    /\ token = ""
    /\ InitPipe
    /\ InitClient
    /\ InitRetry

Quiet == pc = "api" /\ rpc \in {"idle", "done"}

CallNewClient ==
    /\ Quiet
    /\ \E typ \in Types, tok \in Tokens :
        LET r == NewClient(typ, tok)
        IN /\ token' = tok
           /\ client' = r.client
           /\ last' = [NoCall EXCEPT !.op = "NewClient", !.variant = r.client,
                                     !.typ = typ, !.tok = tok, !.err = r.err,
                                     !.http = r.http]
    /\ fakeID' = 0
    /\ relID' = 0
    /\ issued' = {}
    /\ RetryIdle
    /\ UNCHANGED << pc, try, args, ctxDone, idx, calls, initErr, execErr, returned,
                    allRes, result, ctxSeen, closed, logged, run, asset >>

\* (c *FakeClient) Release
FakeRelease(id) ==
    /\ client = "fake"
    /\ fakeID' = id
    /\ relID' = id
    /\ issued' = issued \cup {id}
    /\ last' = [NoCall EXCEPT !.op = "Release", !.variant = "fake", !.retID = id,
                              !.cid = fakeID]
    /\ UNCHANGED client

CallFakeRelease ==
    /\ Quiet
    /\ \E id \in IDs : FakeRelease(id)
    /\ RetryIdle
    /\ UNCHANGED pipeVars

\* (c *FakeClient) UploadAssetsFile
CallFakeUpload ==
    /\ Quiet
    /\ client = "fake"
    /\ \E y \in IDs, fNil \in BOOLEAN :
        last' = [NoCall EXCEPT !.op = "UploadAssetsFile", !.variant = "fake",
                               !.id = y, !.fNil = fNil, !.cid = fakeID,
                               !.err = FakeUploadAssetsFile(fakeID, fNil, y)]
    /\ RetryIdle
    /\ UNCHANGED << client, fakeID, relID, issued >>
    /\ UNCHANGED pipeVars

\* (c GitHubClient) Release
LiveRelease(notes, out) ==
    LET r == GitHubRelease(notes, out)
    IN /\ client = "github"
       /\ relID' = r.id
       /\ issued' = issued
       /\ last' = [NoCall EXCEPT !.op = "Release", !.variant = "github",
                                 !.notes = notes, !.err = r.err, !.retID = r.id,
                                 !.out = IF r.remoteCalls = 0 THEN NoOut ELSE out,
                                 !.remoteCalls = r.remoteCalls]
       /\ UNCHANGED << client, fakeID >>

CallGitHubRelease ==
    /\ Quiet
    /\ \/ \E notes \in {"none", "ok"}, out \in CreateOutcomes(FALSE) :
            LiveRelease(notes, out)
       \/ LiveRelease("unreadable", NoOut)
    /\ RetryIdle
    /\ UNCHANGED pipeVars

\* (c GitHubClient) UploadAssetsFile
CallGitHubUpload ==
    /\ Quiet
    /\ client = "github"
    /\ \E out \in UploadOutcomes(FALSE) :
        last' = [NoCall EXCEPT !.op = "UploadAssetsFile", !.variant = "github",
                               !.id = relID, !.out = out, !.remoteCalls = 1,
                               !.err = GitHubUploadAssetsFile(out)]
    /\ RetryIdle
    /\ UNCHANGED << client, fakeID, relID, issued >>
    /\ UNCHANGED pipeVars

\* the caller brings a Client implementation of its own
UseCustomClient ==
    /\ Quiet
    /\ client' = "custom"
    /\ last' = [NoCall EXCEPT !.op = "custom", !.variant = "custom"]
    /\ fakeID' = 0
    /\ relID' = 0
    /\ issued' = {}
    /\ RetryIdle
    /\ UNCHANGED pipeVars

CallUploadWithRetries ==
    /\ Quiet
    /\ client # "none"
    /\ \E y \in IDs : StartUpload(y)
    /\ last' = [NoCall EXCEPT !.op = "UploadAssetsFileWithRetries", !.variant = client]
    /\ UNCHANGED << client, fakeID, relID, issued >>
    /\ UNCHANGED pipeVars

StepOpen ==
    /\ pc = "api"
    /\ \E ok \in BOOLEAN : AttemptOpen(ok)
    /\ UNCHANGED clientVars
    /\ UNCHANGED pipeVars

StepUpload ==
    /\ pc = "api"
    /\ \E e \in ClientUploadResults(FALSE) : AttemptUpload(e)
    /\ UNCHANGED clientVars
    /\ UNCHANGED pipeVars

NextClient ==
    \/ CallNewClient
    \/ CallFakeRelease
    \/ CallFakeUpload
    \/ CallGitHubRelease
    \/ CallGitHubUpload
    \/ UseCustomClient
    \/ CallUploadWithRetries
    \/ StepOpen
    \/ StepUpload

SpecClient == InitAPI /\ [][NextClient]_vars

\* ------------------------- SpecRetry: withRetries around any operation
OpErrors == {Err("op: failure 1"), Err("op: failure 2"),
             TemporaryError(Err("op: failure 3"))}
OpResults == {[err |-> e, retry |-> b] : e \in OpErrors \cup {Nil}, b \in BOOLEAN}

InitExecutor ==
    /\ pc = "retry"
    /\ token = ""
    /\ InitPipe
    /\ InitClient
    /\ InitRetry

\* withRetries(f) is called
CallWithRetries ==
    /\ pc = "retry"
    /\ StartUpload(0)
    /\ UNCHANGED clientVars
    /\ UNCHANGED pipeVars

\* f() returns r
OpReturns ==
    /\ pc = "retry"
    /\ rpc = "call"
    /\ \E r \in OpResults : Attempted(r)
    /\ UNCHANGED << argID, opens, closes, upCalls >>
    /\ UNCHANGED clientVars
    /\ UNCHANGED pipeVars

NextRetry ==
    \/ CallWithRetries
    \/ OpReturns

SpecRetry == InitExecutor /\ [][NextRetry]_vars

\* --------------------------------------------- Spec: parseAndRun with "all"
ArgsSet == {<< >>, << "extra" >>}

\* the context made by context.WithTimeout(context.Background(), core.Timeout)
TimeoutCtx == "timeoutCtx"

InitFailure == [h \in HandlerSet |-> Err("init failed: " \o h)]
ExecFailure == [h \in HandlerSet |-> Err("exec failed: " \o h)]

TimeoutError == Err("command timed out; increase -timeout if needed")

InitRun ==
    /\ pc = "New"
    /\ token \in Tokens
    /\ InitPipe
    /\ InitClient
    /\ InitRetry

\* what stays as it is while parseAndRun and all.Exec move
KeepRelease ==
    /\ UNCHANGED clientVars
    /\ UNCHANGED retryVars
    /\ UNCHANGED asset

KeepHandlers == UNCHANGED << idx, calls, initErr, execErr, returned, allRes, ctxSeen >>

KeepEnv == UNCHANGED << token, try, args, ctxDone >>

\* a cleanup that is deferred only once core.PreInit has succeeded
DeferredFrom_AfterPreInit(p) ==
    IF p \in {"New", "PreInit"} THEN "recover"
    ELSE IF p \in {"Parse", "Setup"} THEN "deferClose"
    ELSE "deferCancel"

\* the first of the deferred calls to run when parseAndRun is left at p: the
\* recover of line 46 alone, the cleanup of line 83, or cancel of line 120
DeferredFrom(p) ==
    IF p = "New" THEN "recover"
    ELSE IF p \in {"PreInit", "Parse", "Setup"} THEN "deferClose"
    ELSE "deferCancel"

\* corecmd.New(), the commands and their options
New ==
    /\ pc = "New"
    /\ pc' = "PreInit"
    /\ KeepEnv /\ KeepHandlers /\ KeepRelease
    /\ UNCHANGED << result, closed, logged, run >>

\* core.PreInit()
PreInit ==
    /\ pc = "PreInit"
    /\ \/ /\ pc' = "Parse"
          /\ UNCHANGED result
       \/ /\ result' = Wrap("error in foo", Err("preinit failed"))
          /\ pc' = DeferredFrom("PreInit")
    /\ KeepEnv /\ KeepHandlers /\ KeepRelease
    /\ UNCHANGED << closed, logged, run >>

\* coreCommand.Parse(args)
Parse ==
    /\ pc = "Parse"
    /\ \/ /\ pc' = "Setup"
          /\ try' \in BOOLEAN
          /\ args' \in ArgsSet
          /\ UNCHANGED result
       \/ /\ result' = Wrap("error parsing command line", Err("flag: bad flag"))
          /\ pc' = DeferredFrom("Parse")
          /\ UNCHANGED << try, args >>
    /\ UNCHANGED << token, ctxDone >>
    /\ KeepHandlers /\ KeepRelease
    /\ UNCHANGED << closed, logged, run >>

\* a run that leaves the environment as it finds it
SetupToken_Keep(tok, dry) == tok

\* if core.Try { os.Setenv("GITHUB_TOKEN", "faketoken") }
SetupToken(tok, dry) == IF dry THEN "faketoken" ELSE tok

\* the token of a dry run, the flags' environment, context.WithTimeout
Setup ==
    /\ pc = "Setup"
    /\ token' = SetupToken(token, try)
    /\ pc' = "CoreInit"
    /\ UNCHANGED << try, args, ctxDone, result, closed, logged, run >>
    /\ KeepHandlers /\ KeepRelease

\* the deadline of ctx elapses
Timeout ==
    /\ pc \notin {"New", "PreInit", "Parse", "Setup", "deferCancel", "deferClose",
                  "recover", "done", "fatal", "exit", "api", "retry"}
    /\ ~ctxDone
    /\ ctxDone' = TRUE
    /\ UNCHANGED << pc, token, try, args, result, closed, logged, run >>
    /\ KeepHandlers /\ KeepRelease

\* core.Init()
CoreInit ==
    /\ pc = "CoreInit"
    /\ \/ /\ pc' = "Run"
          /\ UNCHANGED result
       \/ /\ result' = Wrap("error initializing config", Err("config: invalid"))
          /\ pc' = DeferredFrom("CoreInit")
    /\ KeepEnv /\ KeepHandlers /\ KeepRelease
    /\ UNCHANGED << closed, logged, run >>

\* coreCommand.Run(ctx) enters all.Exec(ctx, args): a.Init(), commandHandlers
AllExec ==
    /\ pc = "Run"
    /\ pc' = "InitLoop"
    /\ idx' = 1
    /\ UNCHANGED << calls, initErr, execErr, returned, allRes, ctxSeen >>
    /\ KeepEnv /\ KeepRelease
    /\ UNCHANGED << result, closed, logged, run >>

\* a first loop that goes on to the next handler after a failed Init
InitLoopNext_NoAbort(i, e) ==
    IF i < Len(Handlers) THEN [pc |-> "InitLoop", idx |-> i + 1, res |-> Nil]
    ELSE IF e # Nil THEN [pc |-> "allReturn", idx |-> i, res |-> e]
    ELSE [pc |-> "ExecLoop", idx |-> 1, res |-> Nil]

\* the first loop of all.Exec after commandHandlers[i].Init() returned e
InitLoopNext(i, e) ==
    IF e # Nil THEN [pc |-> "allReturn", idx |-> i, res |-> e]
    ELSE IF i < Len(Handlers) THEN [pc |-> "InitLoop", idx |-> i + 1, res |-> Nil]
    ELSE [pc |-> "ExecLoop", idx |-> 1, res |-> Nil]

\* a second loop that returns an error of its own for the handler's
ExecLoopNext_Masked(i, e) ==
    IF e # Nil THEN [pc |-> "allReturn", idx |-> i, res |-> Wrap("all: exec", e)]
    ELSE IF i < Len(Handlers) THEN [pc |-> "ExecLoop", idx |-> i + 1, res |-> Nil]
    ELSE [pc |-> "allReturn", idx |-> i, res |-> Nil]

\* the second loop of all.Exec after commandHandlers[i].Exec(ctx, args) returned e
ExecLoopNext(i, e) ==
    IF e # Nil THEN [pc |-> "allReturn", idx |-> i, res |-> e]
    ELSE IF i < Len(Handlers) THEN [pc |-> "ExecLoop", idx |-> i + 1, res |-> Nil]
    ELSE [pc |-> "allReturn", idx |-> i, res |-> Nil]

\* an all.Exec that runs the handlers under a context of its own
ExecArgs_Background(c, a) == [ctx |-> "background", args |-> a]

\* what all.Exec(c, a) hands to commandHandler.Exec
ExecArgs(c, a) == [ctx |-> c, args |-> a]

NoArgs == [ctx |-> "none", args |-> << >>]

\* commandHandler.Init() of the first loop
HandlerInit ==
    /\ pc = "InitLoop"
    /\ LET h == Handlers[idx]
       IN /\ calls' = Append(calls, [op |-> "Init", h |-> h, with |-> NoArgs])
          /\ returned' = returned \cup {<< "Init", h >>}
          /\ \E e \in {Nil, InitFailure[h]} :
                LET n == InitLoopNext(idx, e)
                IN /\ initErr' = [initErr EXCEPT ![h] = e]
                   /\ pc' = n.pc
                   /\ idx' = n.idx
                   /\ allRes' = n.res
    /\ UNCHANGED << execErr, ctxSeen >>
    /\ KeepEnv /\ KeepRelease
    /\ UNCHANGED << result, closed, logged, run >>

\* commandHandler.Exec(ctx, args) of the second loop is entered
HandlerExec ==
    /\ pc = "ExecLoop"
    /\ LET h == Handlers[idx]
       IN /\ calls' = Append(calls, [op |-> "Exec", h |-> h,
                                     with |-> ExecArgs(TimeoutCtx, args)])
          /\ pc' = IF h = "release" THEN "relNewClient" ELSE "Executing"
    /\ UNCHANGED << idx, initErr, execErr, returned, allRes, ctxSeen >>
    /\ KeepEnv /\ KeepRelease
    /\ UNCHANGED << result, closed, logged, run >>

\* commandHandlers[idx].Exec returns e to the second loop
HandlerReturns(e) ==
    LET h == Handlers[idx]
        n == ExecLoopNext(idx, e)
    IN /\ execErr' = [execErr EXCEPT ![h] = e]
       /\ returned' = returned \cup {<< "Exec", h >>}
       /\ pc' = n.pc
       /\ idx' = n.idx
       /\ allRes' = n.res

\* the build or the archive handler's Exec returns; a blocking call of it that
\* finds the context done returns ctx.Err()
BuildArchiveReturns ==
    /\ pc = "Executing"
    /\ \/ /\ \E e \in {Nil, ExecFailure[Handlers[idx]]} : HandlerReturns(e)
          /\ UNCHANGED ctxSeen
       \/ /\ ctxDone
          /\ HandlerReturns(Wrap(Handlers[idx], DeadlineExceeded))
          /\ ctxSeen' = TRUE
    /\ UNCHANGED << calls, initErr >>
    /\ KeepEnv /\ KeepRelease
    /\ UNCHANGED << result, closed, logged, run >>

\* ---- the release handler's Exec: NewClient, Release, then one upload per archive
KeepRun == UNCHANGED << calls, initErr, token, try, args, ctxDone, result, closed, logged, run >>

RelNewClient ==
    /\ pc = "relNewClient"
    /\ \E typ \in Types :
        LET r == NewClient(typ, token)
        IN /\ client' = r.client
           /\ last' = [NoCall EXCEPT !.op = "NewClient", !.variant = r.client,
                                     !.typ = typ, !.tok = token, !.err = r.err,
                                     !.http = r.http]
           /\ IF r.err # Nil
              THEN HandlerReturns(r.err)
              ELSE /\ pc' = "relRelease"
                   /\ UNCHANGED << idx, execErr, returned, allRes >>
    /\ fakeID' = 0
    /\ UNCHANGED << relID, issued, asset, ctxSeen >>
    /\ UNCHANGED retryVars
    /\ KeepRun

RelRelease ==
    /\ pc = "relRelease"
    /\ \/ /\ \E id \in IDs : FakeRelease(id)
          /\ UNCHANGED ctxSeen
       \/ /\ \/ \E notes \in {"none", "ok"}, out \in CreateOutcomes(ctxDone) :
                  LiveRelease(notes, out)
             \/ LiveRelease("unreadable", NoOut)
          /\ ctxSeen' = (last'.out = ContextFailure)
    /\ IF last'.err # Nil
       THEN /\ HandlerReturns(last'.err)
            /\ UNCHANGED asset
       ELSE /\ pc' = "relUpload"
            /\ asset' = 1
            /\ UNCHANGED << idx, execErr, returned, allRes >>
    /\ UNCHANGED retryVars
    /\ KeepRun

\* releases.UploadAssetsFileWithRetries(ctx, client, settings, releaseID, openFile)
RelUploadStart ==
    /\ pc = "relUpload"
    /\ StartUpload(relID)
    /\ pc' = "relUploading"
    /\ UNCHANGED << idx, execErr, returned, allRes, ctxSeen, asset >>
    /\ UNCHANGED clientVars
    /\ KeepRun

RelOpen ==
    /\ pc = "relUploading"
    /\ \E ok \in BOOLEAN : AttemptOpen(ok)
    /\ UNCHANGED << pc, idx, execErr, returned, allRes, ctxSeen, asset >>
    /\ UNCHANGED clientVars
    /\ KeepRun

RelUpload ==
    /\ pc = "relUploading"
    /\ \E e \in ClientUploadResults(ctxDone) : AttemptUpload(e)
    /\ ctxSeen' = (client = "github" /\ ctxDone)
    /\ UNCHANGED << pc, idx, execErr, returned, allRes, asset >>
    /\ UNCHANGED clientVars
    /\ KeepRun

\* UploadAssetsFileWithRetries returned
RelUploaded ==
    /\ pc = "relUploading"
    /\ rpc = "done"
    /\ IF retryRes # Nil
       THEN /\ HandlerReturns(retryRes)
            /\ UNCHANGED asset
       ELSE IF asset < NumAssets
       THEN /\ asset' = asset + 1
            /\ pc' = "relUpload"
            /\ UNCHANGED << idx, execErr, returned, allRes >>
       ELSE /\ HandlerReturns(Nil)
            /\ UNCHANGED asset
    /\ UNCHANGED ctxSeen
    /\ UNCHANGED clientVars
    /\ UNCHANGED retryVars
    /\ KeepRun

\* ---- back in parseAndRun
\* what parseAndRun returns for the error e of coreCommand.Run(ctx)
RunResult(e) ==
    IF e # Nil
    THEN IF ErrorsIs(e, DeadlineExceeded) \/ ErrorsIs(e, Canceled)
         THEN TimeoutError
         ELSE Wrap("error running command", e)
    ELSE Nil

RunReturns ==
    /\ pc = "allReturn"
    /\ result' = RunResult(allRes)
    /\ pc' = DeferredFrom("allReturn")
    /\ KeepEnv /\ KeepHandlers /\ KeepRelease
    /\ UNCHANGED << closed, logged, run >>

\* defer cancel()
DeferCancel ==
    /\ pc = "deferCancel"
    /\ pc' = "deferClose"
    /\ run' = [run EXCEPT !.cancels = @ + 1]
    /\ KeepEnv /\ KeepHandlers /\ KeepRelease
    /\ UNCHANGED << result, closed, logged >>

\* what the deferred function makes of the result, core.Close() having failed
\* or not: fmt.Errorf("error closing app: %w", err) wraps err, which is nil
CloseResult(err, closeFailed) ==
    IF closeFailed /\ err = Nil THEN Err("error closing app: %!w(<nil>)") ELSE err

\* the deferred core.Close() and the log of the elapsed time
CloseError == Err("close failed")

DeferClose ==
    /\ pc = "deferClose"
    /\ closed' = closed + 1
    /\ \E closeFailed \in BOOLEAN :
        /\ result' = CloseResult(result, closeFailed)
        /\ run' = [run EXCEPT !.retErr = result,
                              !.closeErr = IF closeFailed THEN CloseError ELSE Nil]
    /\ logged' = logged + 1
    /\ pc' = "recover"
    /\ KeepEnv /\ KeepHandlers /\ KeepRelease

\* the places of the run at which a call may panic
PanicPoints == {"New", "PreInit", "Parse", "Setup", "CoreInit", "Run", "InitLoop",
                "Executing", "relNewClient", "relRelease", "relUpload",
                "relUploading", "deferClose"}

PanicError == Err("panic value")

\* the call at hand panics: the function is left through its deferred calls; a
\* panic of core.Close leaves the deferred cleanup before its log, a panic of an
\* upload runs the closure's deferred f.Close()
Panic ==
    /\ pc \in PanicPoints
    /\ run.panicAt = ""
    /\ run' = [run EXCEPT !.panicAt = pc]
    /\ IF pc = "deferClose"
       THEN /\ closed' = closed + 1
            /\ pc' = "recover"
       ELSE /\ pc' = DeferredFrom(pc)
            /\ UNCHANGED closed
    /\ closes' = IF pc = "relUploading" /\ rpc = "upload" THEN closes + 1 ELSE closes
    /\ UNCHANGED << argID, rpc, attemptLog, opens, upCalls, retryRes >>
    /\ UNCHANGED << result, logged, asset >>
    /\ UNCHANGED clientVars
    /\ KeepEnv /\ KeepHandlers

\* what the deferred recover of line 46 makes of the result
Recovered(err, panicked) == IF panicked THEN PanicError ELSE err

\* the deferred recover(); parseAndRun returns
Recover ==
    /\ pc = "recover"
    /\ result' = Recovered(result, run.panicAt # "")
    /\ pc' = "done"
    /\ KeepEnv /\ KeepHandlers /\ KeepRelease
    /\ UNCHANGED << closed, logged, run >>

\* main: log.Fatal(err) if parseAndRun returned an error
Main ==
    /\ pc = "done"
    /\ pc' = IF result # Nil THEN "fatal" ELSE "exit"
    /\ KeepEnv /\ KeepHandlers /\ KeepRelease
    /\ UNCHANGED << result, closed, logged, run >>

Next ==
    \/ New
    \/ PreInit
    \/ Parse
    \/ Setup
    \/ Timeout
    \/ CoreInit
    \/ AllExec
    \/ HandlerInit
    \/ HandlerExec
    \/ BuildArchiveReturns
    \/ RelNewClient
    \/ RelRelease
    \/ RelUploadStart
    \/ RelOpen
    \/ RelUpload
    \/ RelUploaded
    \/ RunReturns
    \/ DeferCancel
    \/ DeferClose
    \/ Panic
    \/ Recover
    \/ Main

Spec == InitRun /\ [][Next]_vars

\* ------------------------------------------------------------------ claims
AllReturned ==
    /\ pc \in {"allReturn", "deferCancel", "deferClose", "recover", "done", "fatal", "exit"}
    /\ idx > 0

Called(op, h) == \E i \in 1 .. Len(calls) : calls[i].op = op /\ calls[i].h = h

ExecCalled == \E i \in 1 .. Len(calls) : calls[i].op = "Exec"

\* C1: when Init of handler k returns an error, Init has been invoked on the
\* handlers before k, on none after k, Exec on no handler at all, and all.Exec
\* returns that error.
C1_InitFailureStopsPipeline ==
    \A k \in 1 .. Len(Handlers) :
        initErr[Handlers[k]] # Nil =>
            /\ \A j \in 1 .. (k - 1) :
                   Called("Init", Handlers[j]) /\ << "Init", Handlers[j] >> \in returned
            /\ \A j \in (k + 1) .. Len(Handlers) : ~Called("Init", Handlers[j])
            /\ ~ExecCalled
            /\ AllReturned
            /\ allRes = initErr[Handlers[k]]

C1_Witness ==
    /\ initErr["archive"] # Nil
    /\ Called("Init", "build")
    /\ pc = "done"

\* C2: when every Init succeeded and Exec of handler k returns an error, Exec is
\* invoked on no handler after k, nothing further is invoked on the handlers
\* that already executed, and all.Exec returns handler k's error itself.
C2_ExecFailureStopsPipeline ==
    \A k \in 1 .. Len(Handlers) :
        execErr[Handlers[k]] # Nil =>
            /\ \A j \in (k + 1) .. Len(Handlers) : ~Called("Exec", Handlers[j])
            /\ \A j \in 1 .. (k - 1) :
                   << "Exec", Handlers[j] >> \in returned /\ execErr[Handlers[j]] = Nil
            /\ Len(calls) = Len(Handlers) + k
            /\ AllReturned
            /\ allRes = execErr[Handlers[k]]

C2_Witness ==
    /\ execErr["archive"] # Nil
    /\ << "Exec", "build" >> \in returned
    /\ pc = "done"

FixedOrder ==
    [i \in 1 .. (2 * Len(Handlers)) |->
        IF i <= Len(Handlers) THEN << "Init", Handlers[i] >>
        ELSE << "Exec", Handlers[i - Len(Handlers)] >>]

Failed(i) ==
    IF calls[i].op = "Init" THEN initErr[calls[i].h] # Nil
    ELSE execErr[calls[i].h] # Nil

\* C3: the calls all.Exec makes are a prefix of Init(build), Init(archive),
\* Init(release), Exec(build), Exec(archive), Exec(release), cut at the first
\* failure; every Exec comes after the three Inits returned nil, and is given the
\* context and the args all.Exec was called with.
C3_FixedOrder ==
    /\ Len(calls) <= 2 * Len(Handlers)
    /\ \A i \in 1 .. Len(calls) :
        /\ << calls[i].op, calls[i].h >> = FixedOrder[i]
        /\ calls[i].op = "Exec" =>
              /\ calls[i].with = [ctx |-> TimeoutCtx, args |-> args]
              /\ \A h \in HandlerSet : << "Init", h >> \in returned /\ initErr[h] = Nil
        /\ i < Len(calls) => ~Failed(i)

C3_Witness ==
    /\ Len(calls) = 2 * Len(Handlers)
    /\ args # << >>
    /\ pc = "done"
    /\ allRes = Nil

\* C4: in a run of "all" with the access token unset and no dry run, the
\* missing-token error is reported before Exec of the build or of the archive
\* handler is invoked.
C4_MissingTokenReportedFirst ==
    (token = "" /\ ~try /\ allRes = MissingToken) =>
        /\ ~Called("Exec", "build")
        /\ ~Called("Exec", "archive")

\* C5: when a blocking call of a handler has returned because the deadline of
\* the run elapsed, parseAndRun returns the timeout error, never the generic
\* "error running command".
C5_TimeoutReported ==
    (pc = "done" /\ ctxSeen /\ run.panicAt = "") => result = TimeoutError

LastAttempt == attemptLog[Len(attemptLog)]

\* the run has gone through lines 104-120 of parseAndRun
EarlyStages == {"New", "PreInit", "Parse", "Setup"}

PastSetup == pc \notin EarlyStages /\ run.panicAt \notin EarlyStages

Retryable(r) == r.err # Nil /\ r.retry

\* C6: withRetries calls the operation again exactly while it returns
\* (error, true), stops at the first nil or (error, false), never makes more than
\* MaxAttempts attempts, and returns the last error when they are used up.
C6_RetriesWhileRetryable ==
    /\ Len(attemptLog) <= MaxAttempts
    /\ \A i \in 1 .. (Len(attemptLog) - 1) : Retryable(attemptLog[i])
    /\ rpc \in {"idle", "call", "done"}
    /\ rpc = "idle" => attemptLog = << >>
    /\ rpc = "call" =>
          /\ Len(attemptLog) < MaxAttempts
          /\ attemptLog # << >> => Retryable(LastAttempt)
    /\ rpc = "done" =>
          /\ attemptLog # << >>
          /\ ~Retryable(LastAttempt) \/ Len(attemptLog) = MaxAttempts
          /\ retryRes = LastAttempt.err

C6_Witness ==
    /\ pc = "retry"
    /\ rpc = "done"
    /\ Len(attemptLog) = MaxAttempts
    /\ Retryable(LastAttempt)
    /\ retryRes = LastAttempt.err

\* C7: an attempt in which the live client returned a TemporaryError is reported
\* to withRetries as retryable.
C7_TemporaryIsRetryable ==
    \A i \in 1 .. Len(attemptLog) :
        IsTemporaryError(attemptLog[i].err) => attemptLog[i].retry

GitHubUploadFailed ==
    /\ last.op = "UploadAssetsFile"
    /\ last.variant = "github"
    /\ last.out.err # Nil

\* C8: a failed upload that carries a response is returned as it is when the
\* status is 400 or 422 and wrapped in TemporaryError for every other status,
\* which is what isTemporaryHttpStatus answers for that status.
C8_ClassifierDenyList ==
    (GitHubUploadFailed /\ last.out.hasResp) =>
        /\ isTemporaryHttpStatus(last.out.status) = (last.out.status \notin {400, 422})
        /\ IsTemporaryError(last.err) = isTemporaryHttpStatus(last.out.status)
        /\ last.err = IF last.out.status \in {400, 422}
                      THEN last.out.err
                      ELSE TemporaryError(last.out.err)

C8_Witness ==
    /\ GitHubUploadFailed
    /\ last.out.hasResp
    /\ last.out.status = 400
    /\ last.err = last.out.err

FakeUploadCalled ==
    /\ last.op = "UploadAssetsFile"
    /\ last.variant = "fake"

\* C9: once Release of the dry-run client has returned, an upload with another
\* identifier than the one the latest Release returned fails with the mismatch
\* error, file or no file; with that identifier it succeeds with a file and fails
\* without one.
C9_FakeUploadChecksIdentifier ==
    (FakeUploadCalled /\ issued # {}) =>
        /\ last.id # relID => last.err = MismatchError
        /\ (last.id = relID /\ ~last.fNil) => last.err = Nil
        /\ (last.id = relID /\ last.fNil) => last.err = NilFileError

C9_Witness ==
    /\ FakeUploadCalled
    /\ last.id \in issued
    /\ last.id # relID
    /\ last.fNil
    /\ last.err = MismatchError

GitHubReleaseCalled ==
    /\ last.op = "Release"
    /\ last.variant = "github"

\* C10: Release of the live client returns identifier 0 and an error that is no
\* TemporaryError when the release notes cannot be read (without a remote call),
\* when the remote call fails, and when it answers anything but 201; it makes at
\* most one remote call.
C10_ReleaseFailureIsFatal ==
    GitHubReleaseCalled =>
        /\ last.remoteCalls <= 1
        /\ last.notes = "unreadable" => last.remoteCalls = 0
        /\ (last.notes = "unreadable" \/ last.out.err # Nil \/ last.out.status # 201) =>
              /\ last.err # Nil
              /\ ~IsTemporaryError(last.err)
              /\ last.retID = 0
              /\ relID = 0

C10_Witness ==
    /\ GitHubReleaseCalled
    /\ last.out.err = Nil
    /\ last.out.status = 200
    /\ last.err # Nil
    /\ last.retID = 0

\* C11 as stated: in a dry run every NewClient call of the run returns the
\* dry-run variant, with no error.
C11_DryRunAlwaysFake ==
    (try /\ PastSetup /\ last.op = "NewClient") =>
        /\ last.variant = "fake"
        /\ last.err = Nil

\* C11: in a dry run the token is "faketoken" from core.Init on, whatever the
\* environment held; every NewClient call for the supported type returns the
\* dry-run variant, no call returns the live one, no HTTP client is constructed
\* and the release client makes no remote call.
C11_DryRunNeverLive ==
    (try /\ PastSetup) =>
        /\ token = "faketoken"
        /\ client # "github"
        /\ last.variant # "github"
        /\ last.remoteCalls = 0
        /\ ~last.http
        /\ (last.op = "NewClient" /\ last.typ = "github") =>
              /\ last.variant = "fake"
              /\ last.err = Nil
              /\ client = "fake"

C11_Witness ==
    /\ try
    /\ PastSetup
    /\ run.startToken = "ghp_token"
    /\ last.op = "NewClient"
    /\ last.typ = "github"
    /\ last.variant = "fake"
    /\ client = "fake"

NewClientCalled == last.op = "NewClient"

\* C12: NewClient returns the unsupported-type error and no client for another
\* type than github, whatever the token; for github it returns the missing-token
\* error and no client when the token is empty, the dry-run variant exactly when
\* the token is "faketoken" and the live variant for every other token; it
\* constructs an HTTP client only for the live variant and makes no remote call.
C12_NewClientSelection ==
    NewClientCalled =>
        /\ last.typ # "github" =>
              /\ last.err = UnsupportedType
              /\ last.variant = "none"
        /\ (last.typ = "github" /\ last.tok = "") =>
              /\ last.err = MissingToken
              /\ last.variant = "none"
        /\ (last.typ = "github" /\ last.tok # "") =>
              /\ last.err = Nil
              /\ (last.variant = "fake") = (last.tok = "faketoken")
              /\ (last.variant = "github") = (last.tok # "faketoken")
        /\ last.err # Nil => client = "none"
        /\ last.http = (last.variant = "github")
        /\ last.remoteCalls = 0
        /\ client = last.variant

C12_Witness ==
    /\ pc = "api"
    /\ NewClientCalled
    /\ last.typ = "gitlab"
    /\ last.tok = ""
    /\ last.err = UnsupportedType
    /\ client = "none"

\* the attempts of the current call in which openFile succeeded
OpenedAttempts == {i \in 1 .. Len(attemptLog) : attemptLog[i].err # OpenError}

\* C15: in UploadAssetsFileWithRetries at most one handle is open at any time, it
\* is open only while its own attempt is uploading, every upload call follows an
\* open of its own, and the handle is closed when the attempt's result reaches
\* the executor, so that closes equal successful opens whenever no attempt is
\* under way and when the function has returned.
C15_HandleClosedEachAttempt ==
    /\ opens - closes \in {0, 1}
    /\ (rpc = "upload") = (opens = closes + 1)
    /\ upCalls = closes
    /\ closes = Cardinality(OpenedAttempts)
    /\ rpc \in {"idle", "call", "done"} => opens = closes

C15_Witness ==
    /\ pc = "api"
    /\ rpc = "done"
    /\ Len(attemptLog) = MaxAttempts
    /\ opens = MaxAttempts
    /\ closes = MaxAttempts
    /\ upCalls = MaxAttempts
    /\ retryRes # Nil

\* C16: on a dry-run client on which Release has not been called, an upload
\* with a file fails with the mismatch error for every identifier passed.
C16_UploadBeforeReleaseFails ==
    (FakeUploadCalled /\ issued = {} /\ ~last.fNil) => last.err = MismatchError

FakeReleaseCalled ==
    /\ last.op = "Release"
    /\ last.variant = "fake"

\* C17: the identifier returned by Release of the dry-run client is not zero and
\* is the one recorded in the client.
C17_FakeReleaseNonZero ==
    FakeReleaseCalled =>
        /\ last.retID # 0
        /\ last.retID = fakeID

\* C18: an attempt in which openFile failed is reported as (open error, false),
\* is the last attempt of the call, and has made no upload call and closed
\* nothing; the call returns the open error.
C18_OpenFailureIsFatal ==
    \A i \in 1 .. Len(attemptLog) :
        attemptLog[i].err = OpenError =>
            /\ ~attemptLog[i].retry
            /\ i = Len(attemptLog)
            /\ rpc = "done"
            /\ retryRes = OpenError
            /\ upCalls = i - 1
            /\ closes = i - 1
            /\ opens = i - 1

C18_Witness ==
    /\ pc = "api"
    /\ rpc = "done"
    /\ Len(attemptLog) = 2
    /\ LastAttempt = [err |-> OpenError, retry |-> FALSE]
    /\ upCalls = 1
    /\ closes = 1
    /\ retryRes = OpenError

GitHubUploadCalled ==
    /\ last.op = "UploadAssetsFile"
    /\ last.variant = "github"

\* C19: UploadAssetsFile of the live client returns nil exactly when the remote
\* call returns no error; a failure without a response is wrapped in
\* TemporaryError; an error that is not a TemporaryError is returned only with a
\* response of status 400 or 422, and is the error of the remote call.
C19_UploadResult ==
    GitHubUploadCalled =>
        /\ (last.err = Nil) = (last.out.err = Nil)
        /\ (last.out.err # Nil /\ ~last.out.hasResp) =>
              last.err = TemporaryError(last.out.err)
        /\ (last.err # Nil /\ ~IsTemporaryError(last.err)) =>
              /\ last.out.hasResp
              /\ last.out.status \in {StatusBadRequest, StatusUnprocessableEntity}
              /\ last.err = last.out.err

C19_Witness ==
    /\ GitHubUploadCalled
    /\ last.out = TransportFailure
    /\ last.err = TemporaryError(TransportFailure.err)

Returned == pc \in {"done", "fatal", "exit"}

\* C13: after a panic anywhere in parseAndRun, parseAndRun returns the error made
\* of the panic value, core.Close has been called, the elapsed time has been
\* logged and, if the context had been made, cancel has been called.
C13_PanicRecoveredAfterCleanup ==
    (Returned /\ run.panicAt # "") =>
        /\ result = PanicError
        /\ closed = 1
        /\ logged = 1
        /\ run.panicAt \notin EarlyStages => run.cancels = 1

C20_CloseFailureReported ==
    (Returned /\ run.panicAt = "" /\ run.closeErr # Nil) =>
        /\ run.retErr # Nil => result = run.retErr
        /\ run.retErr = Nil =>
              /\ result # Nil
              /\ ErrorsIs(result, run.closeErr)

====
